---- MODULE Spec2Model ----
(***************************************************************************)
(* Model of the local reverse geocoder (src/app.ts, the geocoder object):  *)
(* the dump cache (_getData, the two download methods, housekeeping), the  *)
(* loader (init with its async.parallel / async.waterfall pipelines), the  *)
(* parsers that fill the side tables and build the k-d tree, and the query *)
(* engine (lookUp / _lookUp).                                              *)
(*                                                                         *)
(* Abstractions, all stated here once:                                     *)
(*  - strings built by concatenation with '.' are sequences of their parts *)
(*    ("AA.01" is <<"AA", "01">>);                                         *)
(*  - coordinates are integers and the haversine metric is replaced by the *)
(*    squared planar distance (both are 0 exactly at the point itself and  *)
(*    grow with the separation; no claim checked here is about the         *)
(*    numeric value of the great-circle distance);                         *)
(*  - the k-d tree library (kdt) is outside the repository: nearest() is   *)
(*    modelled as returning the min(k, n) nearest nodes, farthest first,   *)
(*    ties broken by insertion order.                                      *)
(***************************************************************************)
EXTENDS Integers, Sequences, FiniteSets, TLC

VARIABLES
  kdTree,          \* geocoder._kdTree: [set, nodes]
  admin1Codes,     \* geocoder._admin1Codes: [set, keys]
  admin2Codes,     \* geocoder._admin2Codes
  admin3Codes,     \* geocoder._admin3Codes
  admin4Codes,     \* geocoder._admin4Codes
  alternateNames,  \* geocoder._alternateNames
  store,           \* the record objects held by the current tree (mutable)
  today,           \* the UTC day, as new Date() reports it
  folder,          \* the dump directory: folder -> file name -> content
  dirs,            \* the directories that exist
  call,            \* one record per init call: options, barrier, callback
  pipe,            \* one record per (init call, dataset): the waterfall
  crashed,         \* an uncaught exception has ended the process
  lastLookUp,      \* what the last lookUp call delivered to its callback
  isGeocodeInitialized,  \* the flag of the HTTP server
  http,            \* the HTTP server: its init call and its last response
  script,          \* the post-install script: its init call and exit code
  reader           \* a parser at work on a file: its lines and what it built

vars == <<kdTree, admin1Codes, admin2Codes, admin3Codes, admin4Codes,
          alternateNames, store, today, folder, dirs, call, pipe, crashed,
          lastLookUp, isGeocodeInitialized, http, script, reader>>

sideTables == <<admin1Codes, admin2Codes, admin3Codes, admin4Codes,
                alternateNames>>

disk == <<today, folder, dirs>>

----------------------------------------------------------------------------
(* Bounds of the model. *)

\* the largest batch a lookUp call is given
MaxBatch == 2
\* the largest maxResults a lookUp call is given
MaxK == 2
\* the number of init calls of one run
MaxInits == 2
\* the last UTC day of one run
MaxDay == 2

----------------------------------------------------------------------------
(* JavaScript values of a record field: a string, null, undefined, or an   *)
(* object (an entry of a side table, named by its key).                    *)

Str(s) == [k |-> "str", v |-> <<s>>]
Null == [k |-> "null", v |-> <<>>]
Undefined == [k |-> "undefined", v |-> <<>>]
Obj(key) == [k |-> "obj", v |-> key]

\* `line[i] || null`: an empty column becomes null
Column(s) == IF s = "" THEN Null ELSE Str(s)

\* `x || ''` used in a string concatenation
OrEmpty(x) ==
  CASE x.k = "str" -> x.v[1]
    [] x.k = "obj" -> "[object Object]"
    [] OTHER -> ""

Min(a, b) == IF a < b THEN a ELSE b

Reverse(s) == [i \in 1..Len(s) |-> s[Len(s) + 1 - i]]

----------------------------------------------------------------------------
(* The data of the dumps (the content a complete download delivers).       *)

CitiesDump == <<"c1", "c2", "c3">>
Cities == {CitiesDump[i] : i \in 1..Len(CitiesDump)}

Row(c) ==
  CASE c = "c1" -> [geoNameId |-> "c1", latitude |-> 0, longitude |-> 0,
                    countryCode |-> "AA", admin1Code |-> "01",
                    admin2Code |-> "001", admin3Code |-> "A3",
                    admin4Code |-> "A4"]
    [] c = "c2" -> [geoNameId |-> "c2", latitude |-> 2, longitude |-> 0,
                    countryCode |-> "AA", admin1Code |-> "01",
                    admin2Code |-> "002", admin3Code |-> "",
                    admin4Code |-> ""]
    [] OTHER    -> [geoNameId |-> "c3", latitude |-> 5, longitude |-> 0,
                    countryCode |-> "BB", admin1Code |-> "07",
                    admin2Code |-> "", admin3Code |-> "",
                    admin4Code |-> ""]

Ord(c) == CHOOSE i \in 1..Len(CitiesDump) : CitiesDump[i] = c

\* lineObj of _parseGeoNamesCitiesCsv, restricted to the fields lookUp writes
LineObj(c) ==
  [admin1Code |-> Column(Row(c).admin1Code),
   admin2Code |-> Column(Row(c).admin2Code),
   admin3Code |-> Column(Row(c).admin3Code),
   admin4Code |-> Column(Row(c).admin4Code),
   alternateName |-> Undefined,
   distance |-> <<>>]

FreshStore == [c \in Cities |-> LineObj(c)]

Admin1Rows == <<<<"AA", "01">>, <<"BB", "07">>>>
Admin2Rows == <<<<"AA", "01", "001">>>>
\* allCountries: one ADM3 row, one ADM4 row, one row of another feature code
AllCountriesRows ==
  <<[featureCode |-> "ADM3", key |-> <<"AA", "01", "001", "A3">>,
     admin4Code |-> ""],
    [featureCode |-> "PPL", key |-> <<"AA", "01", "002", "">>,
     admin4Code |-> ""],
    [featureCode |-> "ADM4", key |-> <<"AA", "01", "001", "A3">>,
     admin4Code |-> "A4"]>>
\* alternateNames: the second row has an empty isoLanguage
AlternateNamesRows ==
  <<[geoNameId |-> "c1", isoLanguage |-> "en"],
    [geoNameId |-> "c2", isoLanguage |-> ""]>>

Range(s) == {s[i] : i \in 1..Len(s)}

NoTable == [set |-> FALSE, keys |-> {}]
Table(keys) == [set |-> TRUE, keys |-> keys]

----------------------------------------------------------------------------
(* Query engine.                                                           *)

\* the value that stands for NaN (no coordinate and no distance of the
\* model is negative)
NaN == -1

\* parseFloat of a latitude / longitude given as a number or as a string;
\* a string that does not start with a number gives NaN
parseFloat(x) == IF x.t \in {"bad", "obj"} THEN NaN ELSE x.v

\* _distanceFunc (see the header for the metric)
distanceFunc(x, y) ==
  IF NaN \in {x.latitude, x.longitude, y.latitude, y.longitude}
    THEN \* every arithmetic operation on NaN gives NaN
         NaN
    ELSE (y.latitude - x.latitude) * (y.latitude - x.latitude)
           + (y.longitude - x.longitude) * (y.longitude - x.longitude)

\* the order, were the farther node to come first
Farther(point, a, b) ==
  \/ distanceFunc(point, Row(a)) > distanceFunc(point, Row(b))
  \/ /\ distanceFunc(point, Row(a)) = distanceFunc(point, Row(b))
     /\ Ord(a) < Ord(b)

\* the order of the nodes by their distance to the point (ties: the order
\* of the dump)
Closer(point, a, b) ==
  \/ distanceFunc(point, Row(a)) < distanceFunc(point, Row(b))
  \/ /\ distanceFunc(point, Row(a)) = distanceFunc(point, Row(b))
     /\ Ord(a) < Ord(b)

\* the nodes in the order of their distance to the point
RECURSIVE NearestFirst(_, _)
NearestFirst(nodes, point) ==
  IF nodes = {} THEN <<>>
  ELSE LET c == CHOOSE x \in nodes :
                  \A y \in nodes \ {x} : Closer(point, x, y)
       IN <<c>> \o NearestFirst(nodes \ {c}, point)

\* kdTree.nearest(point, maxNodes): pairs [node, distance], farthest first
nearest(nodes, point, maxNodes) ==
  LET n == Min(maxNodes, Cardinality(nodes))
      nf == NearestFirst(nodes, point)
  IN [i \in 1..n |->
        [obj |-> nf[n + 1 - i],
         dist |-> distanceFunc(point, Row(nf[n + 1 - i]))]]

\* `table[key] || field`
Resolve(table, key, field) == IF key \in table.keys THEN Obj(key) ELSE field

\* the body of the loop over the hits of one point: the record object of
\* the tree is written in place
Decorate(st, hit) ==
  LET r == st[hit.obj]
      countryCode == OrEmpty(Column(Row(hit.obj).countryCode))
      geoNameId == OrEmpty(Column(Row(hit.obj).geoNameId))
      a1 == IF admin1Codes.set THEN OrEmpty(r.admin1Code) ELSE "undefined"
      a2 == IF admin2Codes.set THEN OrEmpty(r.admin2Code) ELSE "undefined"
      a3 == IF admin3Codes.set THEN OrEmpty(r.admin3Code) ELSE "undefined"
      a4 == IF admin4Codes.set THEN OrEmpty(r.admin4Code) ELSE "undefined"
  IN [st EXCEPT ![hit.obj] =
       [admin1Code |->
          IF admin1Codes.set
            THEN Resolve(admin1Codes, <<countryCode, a1>>, r.admin1Code)
            ELSE r.admin1Code,
        admin2Code |->
          IF admin2Codes.set
            THEN Resolve(admin2Codes, <<countryCode, a1, a2>>, r.admin2Code)
            ELSE r.admin2Code,
        admin3Code |->
          IF admin3Codes.set
            THEN Resolve(admin3Codes, <<countryCode, a1, a2, a3>>,
                         r.admin3Code)
            ELSE r.admin3Code,
        admin4Code |->
          IF admin4Codes.set
            THEN Resolve(admin4Codes, <<countryCode, a1, a2, a3, a4>>,
                         r.admin4Code)
            ELSE r.admin4Code,
        alternateName |->
          IF alternateNames.set
            THEN Resolve(alternateNames, <<geoNameId>>, r.alternateName)
            ELSE r.alternateName,
        distance |-> <<hit.dist>>]]

RECURSIVE DecorateAll(_, _, _)
DecorateAll(st, hits, j) ==
  IF j > Len(hits) THEN st
  ELSE DecorateAll(Decorate(st, hits[j]), hits, j + 1)

\* the hits as nearest() hands them over, were they not reversed
HitsNoReverse(point, maxResults) == nearest(kdTree.nodes, point, maxResults)

\* nearest() and result.reverse() of functions[i]
Hits(point, maxResults) == Reverse(nearest(kdTree.nodes, point, maxResults))

\* `result[j] = result[j][0]`: the slot holds the record objects themselves
Slot(hits) == [j \in 1..Len(hits) |-> hits[j].obj]

\* points.forEach: the point each functions[i] closes over
PointOf(p) == [latitude |-> parseFloat(p.latitude),
               longitude |-> parseFloat(p.longitude)]

\* async.series(functions, ...): the tasks run in order, each on the store
\* the previous one left; results[i] is what task i handed to innerCallback
RECURSIVE SeriesStore(_, _, _, _)
SeriesStore(st, points, maxResults, i) ==
  IF i > Len(points) THEN st
  ELSE SeriesStore(DecorateAll(st, Hits(PointOf(points[i]), maxResults), 1),
                   points, maxResults, i + 1)

\* the results, were they delivered in the reverse order of the tasks
SeriesResultsSwapped(points, maxResults) ==
  [i \in 1..Len(points) |->
     Slot(Hits(PointOf(points[Len(points) + 1 - i]), maxResults))]

SeriesResults(points, maxResults) ==
  [i \in 1..Len(points) |-> Slot(Hits(PointOf(points[i]), maxResults))]

\* `if (!Array.isArray(points)) points = [points]`
AsArray(input) == input.pts

----------------------------------------------------------------------------
(* Datasets, files and options.                                            *)

\* the five tasks of async.parallel in the default branch, in order
DefaultTasks == <<"cities", "admin1", "admin2", "all", "alt">>
CountryCodes == {"AA", "BB"}
Datasets == Range(DefaultTasks) \cup CountryCodes

\* downloadMethodBoundToThis of each _getGeoNames...Data
Method(d) == IF d \in {"admin1", "admin2"} THEN "txt" ELSE "zip"

\* `${baseName}_${now}.txt`, `${baseName}.txt`
TS(day) == <<"ts", day>>
Bare == <<"bare", 0>>
Miss == <<"miss", 0>>
FileNames == {Bare} \cup {TS(day) : day \in 0..MaxDay}

EmptyFolder == [f \in FileNames |-> "absent"]

LoadOn(v) == v # "false"

NoCountries == [def |-> FALSE, list |-> <<>>]
CountryList(l) == [def |-> TRUE, list |-> l]

Options(countries, a1, a2, a34, alt) ==
  [countries |-> countries,
   load |-> [admin1 |-> a1, admin2 |-> a2, admin3And4 |-> a34,
             alternateNames |-> alt],
   citiesFileOverride |-> "undefined"]

\* the options with citiesFileOverride: file
WithCitiesFile(options, file) == [options EXCEPT !.citiesFileOverride = file]

\* `var CITIES_FILE = 'cities1000'`, assigned nowhere else
CITIES_FILE == "cities1000"

\* baseName, as each _getGeoNames...Data hands it to _getData (the other
\* dumps are named after their dataset here)
BaseName(d) == IF d = "cities" THEN CITIES_FILE ELSE d

\* `{}`, as the lazy path of _lookUp and the README pass it
EmptyOptions ==
  Options(NoCountries, "undefined", "undefined", "undefined", "undefined")

\* is the pipeline of dataset d enabled by the (defaulted) options?
Enabled(options, d) ==
  CASE d = "cities" -> TRUE
    [] d = "admin1" -> LoadOn(options.load.admin1)
    [] d = "admin2" -> LoadOn(options.load.admin2)
    [] d = "all"    -> LoadOn(options.load.admin3And4)
    [] d = "alt"    -> LoadOn(options.load.alternateNames)
    [] OTHER        -> FALSE

NoCall == [state |-> "unused", options |-> EmptyOptions, remaining |-> 0,
           onReady |-> 0]

NoPipe == [stage |-> "off", final |-> FALSE, failed |-> FALSE,
           cbCalled |-> FALSE, net |-> "none", base |-> "none", file |-> Miss,
           entries |-> 0, found |-> 0, writing |-> 0, unzipDone |-> FALSE,
           src |-> "absent", lines |-> 0]

\* a waterfall that has ended and has no event left to come: the locals of
\* its closures (foundFiles and the like) are out of reach
Settled(p) ==
  IF p.stage = "done" /\ p.net \in {"none", "closed"} /\ p.writing = 0
    THEN [p EXCEPT !.entries = 0, !.found = 0, !.unzipDone = FALSE,
                   !.src = "absent", !.lines = 0]
    ELSE p

\* no server has been started in the process (the library is used alone)
NoHttp == [server |-> "app.ts", call |-> 0, route |-> "none", status |-> 0]

\* the server, were the callback it gives to init not to set the flag
ServerFrameNoFlag ==
  /\ http' = http
  /\ isGeocodeInitialized' = isGeocodeInitialized

\* what a step of the loader or a library call means to the server: the
\* callback the server gave to init sets the flag when init calls it
ServerFrame ==
  /\ http' = http
  /\ isGeocodeInitialized' =
       (\/ isGeocodeInitialized
        \/ /\ http.call >= 1
           /\ call'[http.call].onReady > call[http.call].onReady)

\* no parser is looked at on a file of its own
NoReader == [parser |-> "none", lines |-> <<>>, next |-> 1, table |-> <<>>,
             state |-> "off"]

\* the steps of the loader, of lookUp, of the server and of the script
\* read the fixed dumps
ReaderFrame == reader' = reader

\* the process does not run the post-install script
NoScript == [call |-> 0, failSilently |-> FALSE, threw |-> FALSE,
             exit |-> <<>>]

\* what a step means to the process of the post-install script: the step
\* is taken by a process that has not exited; an exception thrown in a
\* callback of the event loop ends the process with exit code 1, and the
\* callback the script gave to init ends it with process.exit(0)
ScriptFrame ==
  /\ script.exit = <<>>
  /\ script' =
       IF script.call = 0 THEN script
       ELSE IF crashed' /\ ~crashed THEN [script EXCEPT !.exit = <<1>>]
       ELSE IF call'[script.call].onReady > call[script.call].onReady
         THEN [script EXCEPT !.exit = <<0>>]
       ELSE script

NoLookUp == [status |-> "none", isArray |-> FALSE, points |-> <<>>,
             maxResults |-> 0, err |-> "null", results |-> <<>>]

----------------------------------------------------------------------------
(* Dump cache: _getData and the file system.                               *)

\* a lookup that knows the bare file only
CacheLookupBareOnly(d) ==
  IF folder[d][Bare] # "absent" THEN Bare ELSE Miss

\* a lookup that tries the bare file before the timestamped one
CacheLookupBareFirst(d) ==
  IF folder[d][Bare] # "absent" THEN Bare
  ELSE IF folder[d][TS(today)] # "absent" THEN TS(today)
  ELSE Miss

\* _getData, lines 239-255: the timestamped file, else the bare file
CacheLookup(d) ==
  IF folder[d][TS(today)] # "absent" THEN TS(today)
  ELSE IF folder[d][Bare] # "absent" THEN Bare
  ELSE Miss

\* a housekeeping that unlinks nothing
housekeepingNone(fld, outputFileName) == fld

\* _housekeepingSync: every other file of the folder is unlinked
housekeepingSync(fld, outputFileName) ==
  [f \in FileNames |-> IF f = outputFileName THEN fld[f] ELSE "absent"]

\* fs.createWriteStream(outputFilePath): the file is created or truncated
CreateFile(fld, name) == [fld EXCEPT ![name] = "partial"]

\* the write stream has drained: the name, when it still exists, holds the
\* whole body
CloseFile(fld, name, content) ==
  [fld EXCEPT ![name] = IF @ = "absent" THEN "absent" ELSE content]

\* the rows a parser reads from a file with the given content: all of them
\* from a complete dump, none from an empty or truncated one
RowsOf(rows, src) == IF src = "full" THEN rows ELSE <<>>

\* the cities a cities parser reads
CitiesOf(d, src) ==
  IF src # "full" THEN {}
  ELSE IF d = "cities" THEN Cities
  ELSE {c \in Cities : Row(c).countryCode = d}

----------------------------------------------------------------------------
(* Loader: init, the barrier of async.parallel, the waterfalls.            *)

\* a task of async.parallel has called back: the barrier counts it, and the
\* main callback (lines 826-833, 861-868) runs when the last one has; the
\* wrappers `function () { return waterfallCallback(); }` pass no error on
SignalledN(c, n) ==
  [c EXCEPT !.remaining = @ - n,
            !.state = IF n > 0 /\ c.remaining = n THEN "ready" ELSE @,
            !.onReady = IF n > 0 /\ c.remaining = n THEN @ + 1 ELSE @]

Signalled(c) == SignalledN(c, 1)

\* parsers that begin by setting their table to null
ParseStartTablesNull(S) ==
  /\ admin1Codes' = IF "admin1" \in S THEN NoTable ELSE admin1Codes
  /\ admin2Codes' = IF "admin2" \in S THEN NoTable ELSE admin2Codes
  /\ admin3Codes' = IF "all" \in S THEN NoTable ELSE admin3Codes
  /\ admin4Codes' = IF "all" \in S THEN NoTable ELSE admin4Codes
  /\ alternateNames' = IF "alt" \in S THEN NoTable ELSE alternateNames

\* the side tables after the parsers of the datasets in S have started
\* (`that._admin1Codes = {}` and its like run before the first line event)
ParseStartTables(S) ==
  /\ admin1Codes' = IF "admin1" \in S THEN Table({}) ELSE admin1Codes
  /\ admin2Codes' = IF "admin2" \in S THEN Table({}) ELSE admin2Codes
  /\ admin3Codes' = IF "all" \in S THEN Table({}) ELSE admin3Codes
  /\ admin4Codes' = IF "all" \in S THEN Table({}) ELSE admin4Codes
  /\ alternateNames' = IF "alt" \in S THEN Table({}) ELSE alternateNames

\* the waterfall of dataset d right after async.waterfall has started it:
\* _getData runs synchronously, and on a cache hit so does the start of the
\* parser
StartedPipe(d, final) ==
  LET hit == CacheLookup(d) IN
  IF hit = Miss
    THEN [NoPipe EXCEPT !.stage = "fetch", !.final = final, !.net = "req",
                        !.base = BaseName(d), !.file = TS(today)]
    ELSE [NoPipe EXCEPT !.stage = "parse", !.final = final, !.cbCalled = TRUE,
                        !.base = BaseName(d), !.file = hit,
                        !.src = folder[d][hit]]

\* _getData on a miss: mkdirSync; _downloadFile opens its write stream at
\* once, _downloadAndExtractFileFromZip only when the entry arrives
FolderAfterStart(d) ==
  IF CacheLookup(d) = Miss /\ Method(d) = "txt"
    THEN CreateFile(folder[d], TS(today))
    ELSE folder[d]

\* the disabled task of async.parallel: setImmediate(waterfallCallback)
ImmediatePipe == [NoPipe EXCEPT !.stage = "immediate", !.final = TRUE]

\* the pipelines init starts, by dataset
InitPipes(options) ==
  IF Len(options.countries.list) = 0
    THEN [d \in Datasets |->
            IF d \in Range(DefaultTasks)
              THEN IF Enabled(options, d) THEN StartedPipe(d, TRUE)
                   ELSE ImmediatePipe
              ELSE NoPipe]
    ELSE [d \in Datasets |->
            IF d \in Range(options.countries.list)
              THEN StartedPipe(d, options.countries.list[
                                    Len(options.countries.list)] = d)
              ELSE NoPipe]

\* init(options, callback), lines 709-871
init(i, options) ==
  /\ dirs' = dirs \cup {"dump"}
       \cup (IF options.countries.def
               THEN {d \in Datasets : /\ InitPipes(options)[d].stage = "fetch"}
               ELSE {})
  /\ IF ~options.countries.def
       THEN \* `options.countries.length` of undefined: init throws a
            \* TypeError at line 745, before any pipeline is started
            UNCHANGED <<call, pipe, folder, sideTables>>
       ELSE LET ps == InitPipes(options) IN
            /\ call' = [call EXCEPT ![i] =
                 [state |-> "running", options |-> options,
                  remaining |-> IF Len(options.countries.list) = 0
                                  THEN Len(DefaultTasks) ELSE 1,
                  onReady |-> 0]]
            /\ pipe' = [pipe EXCEPT ![i] = ps]
            /\ folder' = [d \in Datasets |->
                 IF ps[d].stage = "fetch" THEN FolderAfterStart(d)
                 ELSE folder[d]]
            /\ ParseStartTables({d \in Datasets : ps[d].stage = "parse"})
  /\ UNCHANGED <<kdTree, store, today, crashed>>

\* the id the next init call gets
NextCall == CHOOSE i \in 1..(MaxInits + 1) :
              /\ i = MaxInits + 1 \/ call[i].state = "unused"
              /\ \A j \in 1..(i - 1) : call[j].state # "unused"

\* the caller of init: one call at a time, the next one after the callback
\* of the one before
InitCall(options) ==
  /\ ~crashed
  /\ NextCall <= MaxInits
  /\ \A j \in 1..MaxInits : call[j].state # "running"
  /\ init(NextCall, options)
  /\ UNCHANGED lastLookUp
  /\ ServerFrame
  /\ ScriptFrame
  /\ ReaderFrame

\* setImmediate(waterfallCallback): the callbacks init has queued run in
\* one check phase of the event loop, one after the other
Immediate(i) ==
  /\ ~crashed
  /\ \E d \in Datasets : pipe[i][d].stage = "immediate"
  /\ pipe' = [pipe EXCEPT ![i] = [d \in Datasets |->
       IF pipe[i][d].stage = "immediate"
         THEN [pipe[i][d] EXCEPT !.stage = "done"]
         ELSE pipe[i][d]]]
  /\ call' = [call EXCEPT ![i] =
       SignalledN(@, Cardinality({d \in Datasets :
                                   pipe[i][d].stage = "immediate"}))]
  /\ UNCHANGED <<kdTree, sideTables, store, disk, crashed, lastLookUp>>
  /\ ServerFrame
  /\ ScriptFrame
  /\ ReaderFrame

----------------------------------------------------------------------------
(* The callback a download method was given: the `next` of async.waterfall *)
(* wrapped in onlyOnce.  p0 is the pipeline as the event handler has left  *)
(* it, src the content of the output file at this moment.                  *)

callback(i, d, err, p0, src) ==
  IF p0.cbCalled
    THEN \* onlyOnce throws "Callback was already called." in an event
         \* handler: an uncaught exception
         /\ crashed' = TRUE
         /\ pipe' = [pipe EXCEPT ![i][d] = p0]
         /\ UNCHANGED <<call, sideTables>>
    ELSE IF err
      THEN \* the waterfall ends with the error; its final callback drops it
           /\ pipe' = [pipe EXCEPT ![i][d] =
                Settled([p0 EXCEPT !.cbCalled = TRUE, !.stage = "done",
                                   !.failed = TRUE])]
           /\ IF p0.final
                THEN /\ call' = [call EXCEPT ![i] = Signalled(@)]
                     /\ crashed' = FALSE
                ELSE \* no final callback: async rejects a promise nobody
                     \* handles, which ends the process on Node >= 15 only
                     /\ call' = call
                     /\ crashed' \in BOOLEAN
           /\ UNCHANGED sideTables
      ELSE IF src = "absent"
      THEN \* the path was unlinked meanwhile: reading it fails (ENOENT)
           /\ crashed' = TRUE
           /\ pipe' = [pipe EXCEPT ![i][d] = [p0 EXCEPT !.cbCalled = TRUE]]
           /\ UNCHANGED <<call, sideTables>>
      ELSE \* the parser starts on the path
           /\ pipe' = [pipe EXCEPT ![i][d] =
                [p0 EXCEPT !.cbCalled = TRUE, !.stage = "parse",
                           !.src = src, !.lines = 0]]
           /\ ParseStartTables({d})
           /\ crashed' = FALSE
           /\ UNCHANGED call

\* request.on('error')
NetError(i, d) ==
  /\ ~crashed
  /\ pipe[i][d].net = "req"
  /\ callback(i, d, TRUE, [pipe[i][d] EXCEPT !.net = "closed"], "absent")
  /\ UNCHANGED <<kdTree, store, disk, lastLookUp>>
  /\ ServerFrame
  /\ ScriptFrame
  /\ ReaderFrame

\* request.on('response'); entries is the number of entries of the archive
\* whose path is fileNameInsideZip
Response(i, d, ok, entries) ==
  /\ ~crashed
  /\ pipe[i][d].net = "req"
  /\ IF ok
       THEN /\ pipe' = [pipe EXCEPT ![i][d] =
                 [@ EXCEPT !.net = "body",
                           !.entries = IF Method(d) = "zip" THEN entries
                                       ELSE 0]]
            /\ UNCHANGED <<call, sideTables, crashed>>
       ELSE callback(i, d, TRUE, [pipe[i][d] EXCEPT !.net = "bodyErr"],
                     "absent")
  /\ UNCHANGED <<kdTree, store, disk, lastLookUp>>
  /\ ServerFrame
  /\ ScriptFrame
  /\ ReaderFrame

\* _downloadFile: the write stream's 'finish'
WriteFinish(i, d) ==
  /\ ~crashed
  /\ Method(d) = "txt"
  /\ pipe[i][d].net \in {"body", "bodyErr"}
  /\ LET name == pipe[i][d].file
         content == IF pipe[i][d].net = "body" THEN "full" ELSE "partial"
         fld == housekeepingSync(CloseFile(folder[d], name, content), name)
     IN /\ folder' = [folder EXCEPT ![d] = fld]
        /\ callback(i, d, FALSE, [pipe[i][d] EXCEPT !.net = "closed"],
                    fld[name])
  /\ UNCHANGED <<kdTree, store, today, dirs, lastLookUp>>
  /\ ServerFrame
  /\ ScriptFrame
  /\ ReaderFrame

\* _downloadAndExtractFileFromZip: unzip's 'entry' for a matching file
ZipEntry(i, d) ==
  /\ ~crashed
  /\ Method(d) = "zip"
  /\ pipe[i][d].net = "body"
  /\ pipe[i][d].found < pipe[i][d].entries
  /\ pipe' = [pipe EXCEPT ![i][d] =
       [@ EXCEPT !.found = @ + 1, !.writing = @ + 1]]
  /\ folder' = [folder EXCEPT ![d] = CreateFile(@, pipe[i][d].file)]
  /\ UNCHANGED <<kdTree, sideTables, store, today, dirs, call, crashed,
                 lastLookUp>>
  /\ ServerFrame
  /\ ScriptFrame
  /\ ReaderFrame

\* the 'finish' of the write stream of an entry
EntryFinish(i, d) ==
  /\ ~crashed
  /\ pipe[i][d].writing > 0
  /\ LET name == pipe[i][d].file
         fld == housekeepingSync(CloseFile(folder[d], name, "full"), name)
     IN /\ folder' = [folder EXCEPT ![d] = fld]
        /\ callback(i, d, FALSE, [pipe[i][d] EXCEPT !.writing = @ - 1],
                    fld[name])
  /\ UNCHANGED <<kdTree, store, today, dirs, lastLookUp>>
  /\ ServerFrame
  /\ ScriptFrame
  /\ ReaderFrame

\* the 'finish' of unzip.Parse()
UnzipFinish(i, d) ==
  /\ ~crashed
  /\ Method(d) = "zip"
  /\ pipe[i][d].net = "body"
  /\ pipe[i][d].found = pipe[i][d].entries
  /\ LET p0 == [pipe[i][d] EXCEPT !.net = "closed", !.unzipDone = TRUE] IN
     IF p0.found = 1
       THEN /\ pipe' = [pipe EXCEPT ![i][d] = Settled(p0)]
            /\ UNCHANGED <<call, sideTables, crashed>>
       ELSE callback(i, d, TRUE, p0, "absent")
  /\ UNCHANGED <<kdTree, store, disk, lastLookUp>>
  /\ ServerFrame
  /\ ScriptFrame
  /\ ReaderFrame

\* the body of a response that is not 200 goes through unzip.Parse() all
\* the same: the parser emits an 'error' nobody listens to, or it finishes
\* with no entry and the callback is called a second time
ZipJunk(i, d) ==
  /\ ~crashed
  /\ Method(d) = "zip"
  /\ pipe[i][d].net = "bodyErr"
  /\ crashed' = TRUE
  /\ pipe' = [pipe EXCEPT ![i][d].net = "closed"]
  /\ UNCHANGED <<kdTree, sideTables, store, disk, call, lastLookUp>>
  /\ ServerFrame
  /\ ScriptFrame
  /\ ReaderFrame

----------------------------------------------------------------------------
(* Parsers.                                                                *)

SideTableSets == {"admin1", "admin2", "all", "alt"}

\* the number of lines the line reader delivers
LinesOf(d, src) ==
  CASE d = "admin1" -> Len(RowsOf(Admin1Rows, src))
    [] d = "admin2" -> Len(RowsOf(Admin2Rows, src))
    [] d = "all"    -> Len(RowsOf(AllCountriesRows, src))
    [] OTHER        -> Len(RowsOf(AlternateNamesRows, src))

Add(table, key) == Table(table.keys \cup {key})

\* lineReader.on('line') of the four streaming parsers
ParseLine(i, d) ==
  /\ ~crashed
  /\ d \in SideTableSets
  /\ pipe[i][d].stage = "parse"
  /\ pipe[i][d].lines < LinesOf(d, pipe[i][d].src)
  /\ LET n == pipe[i][d].lines + 1 IN
     /\ pipe' = [pipe EXCEPT ![i][d].lines = n]
     /\ admin1Codes' = IF d = "admin1" THEN Add(admin1Codes, Admin1Rows[n])
                       ELSE admin1Codes
     /\ admin2Codes' = IF d = "admin2" THEN Add(admin2Codes, Admin2Rows[n])
                       ELSE admin2Codes
     /\ admin3Codes' =
          IF d = "all" /\ AllCountriesRows[n].featureCode = "ADM3"
            THEN Add(admin3Codes, AllCountriesRows[n].key)
            ELSE admin3Codes
     /\ admin4Codes' =
          IF d = "all" /\ AllCountriesRows[n].featureCode = "ADM4"
            THEN Add(admin4Codes,
                     Append(AllCountriesRows[n].key,
                            AllCountriesRows[n].admin4Code))
            ELSE admin4Codes
     /\ alternateNames' =
          IF d = "alt" /\ AlternateNamesRows[n].isoLanguage # ""
            THEN Add(alternateNames, <<AlternateNamesRows[n].geoNameId>>)
            ELSE alternateNames
  /\ UNCHANGED <<kdTree, store, disk, call, crashed, lastLookUp>>
  /\ ServerFrame
  /\ ScriptFrame
  /\ ReaderFrame

\* the waterfall has run its last task: its final callback, when it has one
Finished(i, d, failed) ==
  /\ pipe' = [pipe EXCEPT ![i][d] =
       Settled([@ EXCEPT !.stage = "done", !.failed = failed])]
  /\ call' = IF pipe[i][d].final THEN [call EXCEPT ![i] = Signalled(@)]
             ELSE call

\* lineReader.on('close')
ParseClose(i, d) ==
  /\ ~crashed
  /\ d \in SideTableSets
  /\ pipe[i][d].stage = "parse"
  /\ pipe[i][d].lines = LinesOf(d, pipe[i][d].src)
  /\ Finished(i, d, FALSE)
  /\ UNCHANGED <<kdTree, sideTables, store, disk, crashed, lastLookUp>>
  /\ ServerFrame
  /\ ScriptFrame
  /\ ReaderFrame

\* the callback of csv-parse in _parseGeoNamesCitiesCsv and
\* _parseGeoNamesCountryCsv; parseErr: a truncated file may not decode
CitiesParsed(i, d, parseErr) ==
  /\ ~crashed
  /\ d \notin SideTableSets
  /\ pipe[i][d].stage = "parse"
  /\ parseErr => pipe[i][d].src = "partial"
  /\ IF parseErr
       THEN UNCHANGED <<kdTree, store, lastLookUp>>
       ELSE /\ kdTree' = [set |-> TRUE, nodes |-> CitiesOf(d, pipe[i][d].src)]
            /\ store' = FreshStore
            /\ lastLookUp' = NoLookUp
  /\ Finished(i, d, parseErr)
  /\ UNCHANGED <<sideTables, disk, crashed>>
  /\ ServerFrame
  /\ ScriptFrame
  /\ ReaderFrame

\* the UTC date changes
AdvanceDay ==
  /\ ~crashed
  /\ today < MaxDay
  /\ today' = today + 1
  /\ UNCHANGED <<kdTree, sideTables, store, folder, dirs, call, pipe, crashed,
                 lastLookUp>>
  /\ ServerFrame
  /\ ScriptFrame
  /\ ReaderFrame

----------------------------------------------------------------------------
(* lookUp and _lookUp as one step: nothing in them waits.                  *)

\* the default of the two-argument form, were it 2
MaxResultsDefaultTwo(nargs, arg2) == IF nargs = 2 THEN 2 ELSE arg2

\* `if (arguments.length === 2) { maxResults = 1; ... }`
MaxResultsOf(nargs, arg2) == IF nargs = 2 THEN 1 ELSE arg2

\* a wrapper that hands an error to the callback of the caller
WrappedErrorSet(err) == "error"

\* `function (err, results) { return callback(null, results); }`
WrappedError(err) == "null"

lookUp(input, nargs, arg2) ==
  LET maxResults == MaxResultsOf(nargs, arg2)
      points == AsArray(input)
  IN IF ~kdTree.set
       THEN \* `this.init({}, ...)`: see init; the TypeError leaves lookUp,
            \* and the callback is never called
            /\ init(NextCall, EmptyOptions)
            /\ lastLookUp' = [NoLookUp EXCEPT !.status = "threw"]
       ELSE /\ store' = SeriesStore(store, points, maxResults, 1)
            /\ lastLookUp' =
                 [status |-> "delivered", isArray |-> input.isArray,
                  points |-> [j \in 1..Len(points) |-> PointOf(points[j])],
                  maxResults |-> maxResults, err |-> WrappedError("null"),
                  results |-> SeriesResults(points, maxResults)]
            /\ UNCHANGED <<kdTree, sideTables, disk, call, pipe, crashed>>

LookUp(input, nargs, arg2) ==
  /\ ~crashed
  /\ lookUp(input, nargs, arg2)
  /\ ServerFrame
  /\ ScriptFrame
  /\ ReaderFrame

----------------------------------------------------------------------------
(* Inputs.                                                                 *)

Num(n) == [t |-> "num", v |-> n]
NumStr(n) == [t |-> "str", v |-> n]
\* a value parseFloat cannot read, such as 'abc' or undefined
NotANumber == [t |-> "bad", v |-> 0]

\* the points of the queries: the coordinates of each city (those of the
\* second given as strings)
QueryPoints ==
  {[latitude |-> Num(0), longitude |-> Num(0)],
   [latitude |-> NumStr(2), longitude |-> NumStr(0)],
   [latitude |-> Num(5), longitude |-> Num(0)]}

\* an array of 1..MaxBatch points, or one point that is not an array
QueryInputs ==
  {[isArray |-> TRUE, pts |-> b] :
     b \in UNION {[1..m -> QueryPoints] : m \in 1..MaxBatch}}
  \cup {[isArray |-> FALSE, pts |-> <<q>>] : q \in QueryPoints}

\* the options of the init calls of the loader runs
LoaderOptions ==
  {EmptyOptions,
   Options(CountryList(<<>>), "false", "false", "false", "false"),
   Options(CountryList(<<>>), "true", "false", "false", "false"),
   Options(CountryList(<<"AA", "BB">>), "true", "true", "true", "true")}

\* the one query of the loader runs
LoaderInputs ==
  {[isArray |-> FALSE,
    pts |-> <<[latitude |-> Num(3), longitude |-> Num(0)]>>],
   [isArray |-> TRUE,
    pts |-> <<[latitude |-> NotANumber, longitude |-> Num(0)],
              [latitude |-> Num(3), longitude |-> Num(0)]>>]}

----------------------------------------------------------------------------
(* The loader: a fresh process with an empty dump directory.               *)

NoTree == [set |-> FALSE, nodes |-> {}]

Init ==
  /\ kdTree = NoTree
  /\ admin1Codes = NoTable
  /\ admin2Codes = NoTable
  /\ admin3Codes = NoTable
  /\ admin4Codes = NoTable
  /\ alternateNames = NoTable
  /\ store = FreshStore
  /\ today = 1
  /\ folder = [d \in Datasets |-> EmptyFolder]
  /\ dirs = {}
  /\ call = [i \in 1..MaxInits |-> NoCall]
  /\ pipe = [i \in 1..MaxInits |-> [d \in Datasets |-> NoPipe]]
  /\ crashed = FALSE
  /\ lastLookUp = NoLookUp
  /\ isGeocodeInitialized = FALSE
  /\ http = NoHttp
  /\ script = NoScript
  /\ reader = NoReader

Streams ==
  \E i \in 1..MaxInits, d \in Datasets :
    \/ NetError(i, d)
    \/ WriteFinish(i, d)
    \/ ZipEntry(i, d)
    \/ EntryFinish(i, d)
    \/ UnzipFinish(i, d)
    \/ ZipJunk(i, d)
    \/ ParseLine(i, d)
    \/ ParseClose(i, d)
    \/ \E parseErr \in BOOLEAN : CitiesParsed(i, d, parseErr)

Next ==
  \/ \E options \in LoaderOptions : InitCall(options)
  \/ \E i \in 1..MaxInits, d \in Datasets, ok \in BOOLEAN :
       Response(i, d, ok, 1)
  \/ \E i \in 1..MaxInits : Immediate(i)
  \/ Streams
  \/ \E input \in LoaderInputs : LookUp(input, 3, 1)

Spec == Init /\ [][Next]_vars

----------------------------------------------------------------------------
(* The query engine on a ready engine: the state in which a first init     *)
(* with the given options, on an empty dump directory and with every       *)
(* download complete, has left the process; and, for the lazy path of      *)
(* lookUp, on an engine no init has been called on.                        *)

QueryOptions ==
  {Options(CountryList(<<>>), "false", "false", "false", "false"),
   Options(CountryList(<<>>), "true", "false", "false", "false"),
   Options(CountryList(<<>>), "false", "true", "false", "false"),
   Options(CountryList(<<>>), "true", "true", "true", "true")}

\* the waterfall of dataset d once it has downloaded and parsed its dump
DonePipe(options, d) ==
  IF d \notin Range(DefaultTasks) THEN NoPipe
  ELSE IF ~Enabled(options, d)
    THEN [NoPipe EXCEPT !.stage = "done", !.final = TRUE]
  ELSE [NoPipe EXCEPT !.stage = "done", !.final = TRUE, !.cbCalled = TRUE,
                      !.net = "closed", !.base = BaseName(d),
                      !.file = TS(1)]

Loaded(options, d, keys) == IF Enabled(options, d) THEN Table(keys) ELSE NoTable

ReadyAfter(options) ==
  /\ kdTree = [set |-> TRUE, nodes |-> Cities]
  /\ admin1Codes = Loaded(options, "admin1", Range(Admin1Rows))
  /\ admin2Codes = Loaded(options, "admin2", Range(Admin2Rows))
  /\ admin3Codes = Loaded(options, "all", {<<"AA", "01", "001", "A3">>})
  /\ admin4Codes = Loaded(options, "all", {<<"AA", "01", "001", "A3", "A4">>})
  /\ alternateNames = Loaded(options, "alt", {<<"c1">>})
  /\ today = 1
  /\ folder = [d \in Datasets |->
       IF d \in Range(DefaultTasks) /\ Enabled(options, d)
         THEN [EmptyFolder EXCEPT ![TS(1)] = "full"]
         ELSE EmptyFolder]
  /\ dirs = {"dump"} \cup {d \in Range(DefaultTasks) : Enabled(options, d)}
  /\ call = [i \in 1..MaxInits |->
       IF i = 1 THEN [state |-> "ready", options |-> options,
                      remaining |-> 0, onReady |-> 1]
       ELSE NoCall]
  /\ pipe = [i \in 1..MaxInits |-> [d \in Datasets |->
       IF i = 1 THEN DonePipe(options, d) ELSE NoPipe]]
  /\ crashed = FALSE

InitQ ==
  \/ /\ \E options \in QueryOptions : ReadyAfter(options)
     /\ store = FreshStore
     /\ lastLookUp = NoLookUp
     /\ isGeocodeInitialized = FALSE
     /\ http = NoHttp
     /\ script = NoScript
     /\ reader = NoReader
  \/ \* a process in which init has not been called
     Init

NextQ ==
  \/ \E input \in QueryInputs : LookUp(input, 2, 1)
  \/ \E input \in QueryInputs, arg2 \in 1..MaxK : LookUp(input, 3, arg2)

SpecQ == InitQ /\ [][NextQ]_vars

\* the state InitQ starts from is one the loader reaches
ReadyReached ==
  /\ ReadyAfter(Options(CountryList(<<>>), "true", "false", "false", "false"))
  /\ store = FreshStore
  /\ lastLookUp = NoLookUp

----------------------------------------------------------------------------
(* Properties of the query engine (checked under SpecQ).                   *)

Delivered == lastLookUp.status = "delivered"

\* the squared distance from point i of the last call to the stored
\* coordinates of city c
DistanceTo(i, c) == distanceFunc(lastLookUp.points[i], Row(c))

\* C1: the results of a lookUp on a ready engine have one slot per point of
\* the batch, slot i holds min(maxResults, number of cities) distinct cities
\* of the tree and no city left out of it is nearer to point i than a city
\* in it; a point that is not an array yields one slot.
C1_OneSlotPerPoint ==
  Delivered =>
    /\ Len(lastLookUp.results) = Len(lastLookUp.points)
    /\ ~lastLookUp.isArray => Len(lastLookUp.results) = 1
    /\ \A i \in 1..Len(lastLookUp.points) :
         LET slot == lastLookUp.results[i]
         IN /\ Len(slot) = Min(lastLookUp.maxResults,
                               Cardinality(kdTree.nodes))
            /\ Cardinality(Range(slot)) = Len(slot)
            /\ Range(slot) \subseteq kdTree.nodes
            /\ \A c \in Range(slot), x \in kdTree.nodes \ Range(slot) :
                 DistanceTo(i, c) <= DistanceTo(i, x)

\* a batch of two different points whose slots differ has been answered
C1_Witness ==
  /\ Delivered
  /\ lastLookUp.isArray
  /\ Len(lastLookUp.points) = 2
  /\ lastLookUp.points[1] # lastLookUp.points[2]
  /\ lastLookUp.results[1] # lastLookUp.results[2]

\* C2: every slot of a delivered result has at most maxResults records and
\* lists them nearest first (by the distance from the slot's point to the
\* record's stored coordinates); for a call with one point, lookUp(P, k),
\* the distance fields of the delivered records ascend as well.
C2_NearestFirst ==
  Delivered =>
    \A i \in 1..Len(lastLookUp.results) :
      LET slot == lastLookUp.results[i]
      IN /\ Len(slot) <= lastLookUp.maxResults
         /\ \A j, l \in 1..Len(slot) :
              j < l =>
                /\ DistanceTo(i, slot[j]) <= DistanceTo(i, slot[l])
                /\ Len(lastLookUp.points) = 1 =>
                     store[slot[j]].distance[1] <= store[slot[l]].distance[1]

\* one point has been answered with two records at different distances
C2_Witness ==
  /\ Delivered
  /\ Len(lastLookUp.points) = 1
  /\ Len(lastLookUp.results[1]) = 2
  /\ store[lastLookUp.results[1][1]].distance[1]
       < store[lastLookUp.results[1][2]].distance[1]

\* C3: the distance field of every record delivered in slot i is the
\* distance from point i to the record's stored coordinates.
C3_DistanceOfOwnPoint ==
  Delivered =>
    \A i \in 1..Len(lastLookUp.results) :
      \A j \in 1..Len(lastLookUp.results[i]) :
        store[lastLookUp.results[i][j]].distance
          = <<DistanceTo(i, lastLookUp.results[i][j])>>

\* C4: on a ready engine no lookUp changes the record objects of the tree,
\* the tree or a side table.
C4_LookUpReadsOnly ==
  [][(kdTree.set /\ lastLookUp'.status = "delivered")
       => /\ store' = store
          /\ kdTree' = kdTree
          /\ sideTables' = sideTables]_vars

----------------------------------------------------------------------------
(* The dump cache across init calls and days: the process starts on day 1  *)
(* with a dump directory that is empty, or holds files an earlier run (the *)
(* timestamped file of day 0 or of day 1) or the user (the bare file) has  *)
(* left.                                                                   *)

CacheOptions ==
  {Options(CountryList(<<>>), "true", "false", "false", "false")}

LeftFolders ==
  {EmptyFolder,
   [EmptyFolder EXCEPT ![Bare] = "full"],
   [EmptyFolder EXCEPT ![TS(0)] = "full"],
   [EmptyFolder EXCEPT ![Bare] = "full", ![TS(1)] = "full"]}

\* the numbers of matching entries an archive may hold
EntryCounts == {0, 1, 2}

InitCache ==
  /\ kdTree = NoTree
  /\ admin1Codes = NoTable
  /\ admin2Codes = NoTable
  /\ admin3Codes = NoTable
  /\ admin4Codes = NoTable
  /\ alternateNames = NoTable
  /\ store = FreshStore
  /\ today = 1
  /\ \E fc \in LeftFolders, fa \in LeftFolders :
       /\ folder = [d \in Datasets |->
            IF d = "cities" THEN fc ELSE IF d = "admin1" THEN fa
            ELSE EmptyFolder]
       /\ dirs = IF fc = EmptyFolder /\ fa = EmptyFolder THEN {}
                 ELSE {"dump"} \cup (IF fc = EmptyFolder THEN {} ELSE {"cities"})
                               \cup (IF fa = EmptyFolder THEN {} ELSE {"admin1"})
  /\ call = [i \in 1..MaxInits |-> NoCall]
  /\ pipe = [i \in 1..MaxInits |-> [d \in Datasets |-> NoPipe]]
  /\ crashed = FALSE
  /\ lastLookUp = NoLookUp
  /\ isGeocodeInitialized = FALSE
  /\ http = NoHttp
  /\ script = NoScript
  /\ reader = NoReader

NextCache ==
  \/ \E options \in CacheOptions : InitCall(options)
  \/ \E i \in 1..MaxInits, d \in Datasets, ok \in BOOLEAN,
        entries \in EntryCounts :
       Response(i, d, ok, entries)
  \/ \E i \in 1..MaxInits : Immediate(i)
  \/ Streams
  \/ AdvanceDay

SpecCache == InitCache /\ [][NextCache]_vars

----------------------------------------------------------------------------
(* Properties of the dump cache (checked under SpecCache).                 *)

\* the step starts the waterfall of dataset d for init call i
Starts(i, d) ==
  /\ pipe[i][d].stage = "off"
  /\ pipe'[i][d].stage \in {"fetch", "parse"}

\* an earlier init call has completed and got dataset d from today's file
\* (downloaded today, or found in the cache today) or from the bare file
GotToday(d) ==
  \E j \in 1..MaxInits :
    /\ call[j].state = "ready"
    /\ pipe[j][d].stage = "done"
    /\ ~pipe[j][d].failed
    /\ pipe[j][d].file \in {TS(today), Bare}

\* C9: when the timestamped file of today exists, _getData hands that path
\* on with no request and leaves the folder as it is; and an init that
\* follows, on the same day, an init which got the dataset starts no
\* download for it.
C9_CacheHitNoDownload ==
  [][\A i \in 1..MaxInits, d \in Datasets :
       Starts(i, d) =>
         /\ folder[d][TS(today)] # "absent" =>
              /\ pipe'[i][d].stage = "parse"
              /\ pipe'[i][d].net = "none"
              /\ pipe'[i][d].file = TS(today)
              /\ folder'[d] = folder[d]
         /\ GotToday(d) =>
              /\ pipe'[i][d].net = "none"
              /\ folder'[d] = folder[d]]_vars

\* the second init call has taken the cities from the file the first one
\* downloaded the same day
C9_Witness ==
  /\ pipe[1]["cities"].net = "closed"
  /\ pipe[1]["cities"].stage = "done"
  /\ ~pipe[1]["cities"].failed
  /\ pipe[1]["cities"].file = TS(today)
  /\ call[2].state \in {"running", "ready"}
  /\ pipe[2]["cities"].file = TS(today)
  /\ pipe[2]["cities"].net = "none"

\* C10: a download is written to the timestamped file of the day on which
\* _getData started it, and at the moment it completes successfully (the
\* path is handed to the parser) the folder of the dataset holds that file,
\* complete, and no other file.
C10_OnlyTodaysFile ==
  [][\A i \in 1..MaxInits, d \in Datasets :
       /\ (pipe[i][d].stage = "off" /\ pipe'[i][d].stage = "fetch")
            => pipe'[i][d].file = TS(today)
       /\ (pipe[i][d].stage = "fetch" /\ pipe'[i][d].stage = "parse")
            => folder'[d] = [EmptyFolder EXCEPT ![pipe[i][d].file] = "full"]
     ]_vars

\* the cities were downloaded on day 1 and again on day 2, and the file of
\* day 1 is gone
C10_Witness ==
  /\ pipe[1]["cities"].net = "closed"
  /\ pipe[1]["cities"].file = TS(1)
  /\ ~pipe[1]["cities"].failed
  /\ pipe[2]["cities"].net = "closed"
  /\ pipe[2]["cities"].file = TS(2)
  /\ pipe[2]["cities"].stage \in {"parse", "done"}
  /\ ~pipe[2]["cities"].failed
  /\ folder["cities"][TS(1)] = "absent"
  /\ folder["cities"][TS(2)] = "full"

----------------------------------------------------------------------------
(* Properties of the loader (checked under Spec).                          *)

\* C5: a lookUp on an engine no init call has been made on (the dump
\* directory, which init creates first, does not exist yet) starts the
\* pipelines of an init call, so that its callback can be invoked with a
\* result once they are done.
C5_LazyInit ==
  [][(/\ dirs = {}
      /\ ~kdTree.set
      /\ lastLookUp' # lastLookUp)
       => \E i \in 1..MaxInits : call'[i].state = "running"]_vars

\* C6: onReady of an init call fires at most once, and when it has fired
\* (here: with no pipeline of the call having failed) every pipeline the
\* call started has reported completion.
C6_ReadyAfterEveryPipeline ==
  \A i \in 1..MaxInits :
    /\ call[i].onReady <= 1
    /\ (/\ call[i].onReady = 1
        /\ \A d \in Datasets : ~pipe[i][d].failed)
         => \A d \in Datasets : pipe[i][d].stage \in {"off", "done"}

\* C7: an init call of the default branch of which a pipeline has failed
\* does not report plain success.
C7_FailureNotSuccess ==
  \A i \in 1..MaxInits :
    (/\ Len(call[i].options.countries.list) = 0
     /\ \E d \in Datasets : pipe[i][d].failed)
      => call[i].onReady = 0

\* the side tables the options enable hold every row of their dumps
TablesComplete(options) ==
  /\ Enabled(options, "admin1") => admin1Codes = Table(Range(Admin1Rows))
  /\ Enabled(options, "admin2") => admin2Codes = Table(Range(Admin2Rows))
  /\ Enabled(options, "all") =>
       /\ admin3Codes = Table({<<"AA", "01", "001", "A3">>})
       /\ admin4Codes = Table({<<"AA", "01", "001", "A3", "A4">>})
  /\ Enabled(options, "alt") => alternateNames = Table({<<"c1">>})

\* C8: at the moment onReady of an init call of the default branch fires,
\* the k-d tree is set and every side table the options enable is complete.
C8_ReadyMeansLoaded ==
  [][\A i \in 1..MaxInits :
       (/\ call[i].onReady = 0
        /\ call'[i].onReady = 1
        /\ Len(call'[i].options.countries.list) = 0)
         => /\ kdTree'.set
            /\ TablesComplete(call[i].options)']_vars

----------------------------------------------------------------------------
(* Properties of the loader and the query engine together (under Spec).    *)

\* the last init call that was made (0: none)
LastCall == NextCall - 1

\* the step is a lookUp that delivers results
Delivers ==
  /\ lastLookUp' # lastLookUp
  /\ lastLookUp'.status = "delivered"

\* the cities of the results the step delivers
DeliveredCities ==
  UNION {Range(lastLookUp'.results[i]) : i \in 1..Len(lastLookUp'.results)}

\* C11: when the last init call has completed (no pipeline of any call
\* having failed) and its options disable an administrative level, the
\* records a lookUp delivers carry that level's code as the raw column
\* value, never as an object of a side table.
C11_DisabledLevelStaysRaw ==
  [][(/\ Delivers
      /\ LastCall >= 1
      /\ call[LastCall].state = "ready"
      /\ \A i \in 1..MaxInits, d \in Datasets : ~pipe[i][d].failed)
       => \A c \in DeliveredCities :
            /\ ~Enabled(call[LastCall].options, "admin1")
                 => store'[c].admin1Code.k # "obj"
            /\ ~Enabled(call[LastCall].options, "admin2")
                 => store'[c].admin2Code.k # "obj"
            /\ ~Enabled(call[LastCall].options, "all")
                 => /\ store'[c].admin3Code.k # "obj"
                    /\ store'[c].admin4Code.k # "obj"]_vars

\* C12: a point whose latitude or longitude is not a finite number gets no
\* record in its slot of the results (the slot is null), and every other
\* slot holds the nearest cities of its point.
C12_BadPointNoRecords ==
  [][Delivers =>
       \A i \in 1..Len(lastLookUp'.points) :
         IF NaN \in {lastLookUp'.points[i].latitude,
                     lastLookUp'.points[i].longitude}
           THEN Len(lastLookUp'.results[i]) = 0
           ELSE lastLookUp'.results[i]
                  = Slot(Hits(lastLookUp'.points[i],
                              lastLookUp'.maxResults))]_vars

----------------------------------------------------------------------------
(* The HTTP server: a process that starts the server in the folder of the  *)
(* container image, where every dump is in place under its bare name. The  *)
(* repository holds the server twice, as app.ts and as app.js.             *)

Servers == {"app.ts", "app.js"}

\* the options the server gives to init; app.js names the cities file
\* under a key (cities_file_override) that is not an option of init
ServerOptions(server) ==
  LET options == Options(CountryList(<<>>), "true", "true", "true", "true")
  IN IF server = "app.ts" THEN WithCitiesFile(options, "cities500")
     ELSE options

\* the callback of app.listen
Listen ==
  /\ ~crashed
  /\ http.call = 0
  /\ NextCall <= MaxInits
  /\ init(NextCall, ServerOptions(http.server))
  /\ http' = [http EXCEPT !.call = NextCall]
  /\ UNCHANGED <<lastLookUp, isGeocodeInitialized>>
  /\ ScriptFrame
  /\ ReaderFrame

\* res.status(code).send(...) of the handler of a route
Respond(route, code) == http' = [http EXCEPT !.route = route, !.status = code]

Healthcheck ==
  /\ ~crashed
  /\ http.call >= 1
  /\ Respond("healthcheck", 200)
  /\ UNCHANGED <<kdTree, sideTables, store, disk, call, pipe, crashed,
                 lastLookUp, isGeocodeInitialized>>
  /\ ScriptFrame
  /\ ReaderFrame

DeepHealthcheck ==
  /\ ~crashed
  /\ http.call >= 1
  /\ Respond("deep-healthcheck", IF isGeocodeInitialized THEN 200 ELSE 503)
  /\ UNCHANGED <<kdTree, sideTables, store, disk, call, pipe, crashed,
                 lastLookUp, isGeocodeInitialized>>
  /\ ScriptFrame
  /\ ReaderFrame

\* a value of req.query: the parameter is missing (or empty), given once as
\* a string, given as an object (latitude[a]=1), or an array of entries
Missing == [kind |-> "missing", vals |-> <<>>]
Once(e) == [kind |-> IF e.t = "str" THEN "string" ELSE "object",
            vals |-> <<e>>]
Repeated(es) == [kind |-> "array", vals |-> es]

\* an entry of a query that is an object, not a string
QueryObject == [t |-> "obj", v |-> 0]

\* the checks of the /geocode handler of app.js that answer 400
BadRequestJs(lat, lon) ==
  \/ lat.kind = "missing"
  \/ lon.kind = "missing"
  \/ /\ lat.kind = "array"
     /\ lon.kind = "array"
     /\ Len(lat.vals) # Len(lon.vals)

\* the checks of the /geocode handler of app.ts that answer 400
BadRequest(lat, lon) ==
  IF lat.kind = "array" /\ lon.kind = "array"
    THEN \/ Len(lat.vals) # Len(lon.vals)
         \/ \E i \in 1..Len(lat.vals) : lat.vals[i].t # "str"
         \/ \E i \in 1..Len(lon.vals) : lon.vals[i].t # "str"
    ELSE lat.kind # "string" \/ lon.kind # "string"

\* the points the /geocode handler builds; where app.js makes one point of
\* an array and a string, parseFloat reads the first entry of the array
RequestPoints(lat, lon) ==
  IF lat.kind = "array" /\ lon.kind = "array"
    THEN [i \in 1..Len(lat.vals) |->
            [latitude |-> lat.vals[i], longitude |-> lon.vals[i]]]
    ELSE <<[latitude |-> lat.vals[1], longitude |-> lon.vals[1]]>>

\* the handler of GET /geocode; a lookUp that throws is answered by the
\* error handler of the framework
Geocode(lat, lon, maxResults) ==
  /\ ~crashed
  /\ http.call >= 1
  /\ isGeocodeInitialized' = isGeocodeInitialized
  /\ IF ~isGeocodeInitialized
       THEN /\ Respond("geocode", 503)
            /\ UNCHANGED <<kdTree, sideTables, store, disk, call, pipe,
                           crashed, lastLookUp>>
     ELSE IF (IF http.server = "app.js" THEN BadRequestJs(lat, lon)
                                        ELSE BadRequest(lat, lon))
       THEN /\ Respond("geocode", 400)
            /\ UNCHANGED <<kdTree, sideTables, store, disk, call, pipe,
                           crashed, lastLookUp>>
     ELSE /\ lookUp([isArray |-> TRUE, pts |-> RequestPoints(lat, lon)],
                    3, maxResults)
          /\ Respond("geocode",
                     IF ~kdTree.set \/ lastLookUp'.err # "null" THEN 500
                     ELSE 200)
  /\ ScriptFrame
  /\ ReaderFrame

\* the values of the latitude and longitude parameters of the requests: a
\* parameter is missing, given once (as a string or as an object), or an
\* array (of one object, or of 1..MaxBatch strings)
QueryValues ==
  {Missing, Once(NumStr(3)), Once(QueryObject), Repeated(<<QueryObject>>)}
  \cup {Repeated([i \in 1..m |-> NumStr(3)]) : m \in 1..MaxBatch}

ImageFolder == [EmptyFolder EXCEPT ![Bare] = "full"]

InitHttp ==
  /\ kdTree = NoTree
  /\ admin1Codes = NoTable
  /\ admin2Codes = NoTable
  /\ admin3Codes = NoTable
  /\ admin4Codes = NoTable
  /\ alternateNames = NoTable
  /\ store = FreshStore
  /\ today = 1
  /\ folder = [d \in Datasets |->
       IF d \in Range(DefaultTasks) THEN ImageFolder ELSE EmptyFolder]
  /\ dirs = {"dump"} \cup Range(DefaultTasks)
  /\ call = [i \in 1..MaxInits |-> NoCall]
  /\ pipe = [i \in 1..MaxInits |-> [d \in Datasets |-> NoPipe]]
  /\ crashed = FALSE
  /\ lastLookUp = NoLookUp
  /\ isGeocodeInitialized = FALSE
  /\ \E server \in Servers : http = [NoHttp EXCEPT !.server = server]
  /\ script = NoScript
  /\ reader = NoReader

NextHttp ==
  \/ Listen
  \/ \E i \in 1..MaxInits, d \in Datasets :
       \/ ParseLine(i, d)
       \/ ParseClose(i, d)
       \/ \E parseErr \in BOOLEAN : CitiesParsed(i, d, parseErr)
  \/ Healthcheck
  \/ DeepHealthcheck
  \/ \E lat \in QueryValues, lon \in QueryValues, maxResults \in 1..MaxK :
       Geocode(lat, lon, maxResults)

SpecHttp == InitHttp /\ [][NextHttp]_vars

----------------------------------------------------------------------------
(* Properties of the HTTP server (checked under SpecHttp).                 *)

\* init has called the callback the server gave to it
CallbackRan ==
  /\ http.call >= 1
  /\ call[http.call].onReady >= 1

\* the step is the answer to a request on the route
Answers(route) ==
  /\ http' # http
  /\ http'.route = route

\* C13: /healthcheck answers 200 in every state; until init has called the
\* callback of the server, /deep-healthcheck and /geocode answer 503; once
\* it has, it has for ever, and /deep-healthcheck answers 200.
C13_HealthRoutes ==
  [][/\ Answers("healthcheck") => http'.status = 200
     /\ Answers("deep-healthcheck")
          => http'.status = IF CallbackRan THEN 200 ELSE 503
     /\ (Answers("geocode") /\ ~CallbackRan) => http'.status = 503
     /\ CallbackRan => CallbackRan']_vars

\* /deep-healthcheck has answered 200 after init's callback
C13_Witness ==
  /\ CallbackRan
  /\ http.route = "deep-healthcheck"
  /\ http.status = 200

\* the step answers a GET /geocode request with these parameters
GeocodeRequest(lat, lon) ==
  \E maxResults \in 1..MaxK : Geocode(lat, lon, maxResults)

\* the numbers of values of the two parameters differ, or one is missing
Mismatch(lat, lon) ==
  \/ Len(lat.vals) # Len(lon.vals)
  \/ lat.kind = "missing"
  \/ lon.kind = "missing"

\* the step answers 400 and makes no lookUp (no result is delivered, no
\* record is touched)
Rejected ==
  /\ http'.status = 400
  /\ lastLookUp' = lastLookUp
  /\ store' = store

\* C14: once the server is ready, a GET /geocode whose numbers of latitude
\* and longitude values differ, or that lacks one of the two, is answered
\* 400 and makes no lookUp: a step of the ready server that is not such an
\* answer is not the handling of such a request.
C14_MismatchIs400 ==
  [][(isGeocodeInitialized /\ ~Rejected)
       => \A lat \in QueryValues, lon \in QueryValues :
            Mismatch(lat, lon) => ~GeocodeRequest(lat, lon)]_vars

----------------------------------------------------------------------------
(* Properties of an init with a list of countries (checked under Spec).    *)

\* init call i was given a list of countries, every pipeline it started
\* has run to its end on a complete dump, and no init call was made since
CountriesLoaded(i) ==
  /\ i = LastCall
  /\ Len(call[i].options.countries.list) > 0
  /\ call[i].state = "ready"
  /\ \A k \in 1..Len(call[i].options.countries.list) :
       LET d == call[i].options.countries.list[k]
       IN /\ pipe[i][d].stage = "done"
          /\ ~pipe[i][d].failed
          /\ pipe[i][d].src = "full"

\* C15: once an init with a list of countries has completed, the k-d tree
\* holds the cities of every country of the list.
C15_EveryCountryIndexed ==
  \A i \in 1..MaxInits :
    CountriesLoaded(i) =>
      \A k \in 1..Len(call[i].options.countries.list) :
        CitiesOf(call[i].options.countries.list[k], "full")
          \subseteq kdTree.nodes

\* onReady of init call i fires in the step, and no pipeline of any call
\* has failed or read a truncated dump
FiresClean(i) ==
  /\ call[i].onReady = 0
  /\ call'[i].onReady = 1
  /\ \A j \in 1..MaxInits, d \in Datasets :
       /\ ~pipe'[j][d].failed
       /\ pipe'[j][d].src # "partial"

\* C16: whether the list of countries is empty or not, every side table
\* the load options of an init call enable is complete at the moment its
\* onReady fires.
C16_EnabledTablesLoaded ==
  [][\A i \in 1..MaxInits :
       FiresClean(i) => TablesComplete(call[i].options)']_vars

----------------------------------------------------------------------------
(* Properties of the cities file (checked under SpecHttp).                 *)

\* C17: the cities pipeline of an init call fetches, or takes from the
\* cache, the dump the citiesFileOverride option names, and cities1000 when
\* the option is not given.
C17_CitiesFileOverride ==
  \A i \in 1..MaxInits :
    pipe[i]["cities"].stage # "off" =>
      pipe[i]["cities"].base =
        IF call[i].options.citiesFileOverride = "undefined"
          THEN "cities1000"
          ELSE call[i].options.citiesFileOverride

----------------------------------------------------------------------------
(* The post-install script: a fresh process that runs the script with the  *)
(* GEOCODER_POSTINSTALL_* variables of its environment.                    *)

\* `VAR?.toLowerCase() === 'true'` of an environment variable
IsTrue(v) == IF v = "true" THEN "true" ELSE "false"

\* the environments of the runs: a variable is undefined or set; the dump
\* directory named may be one whose parent directory does not exist
ScriptEnvs ==
  [dumpDirectory : {"undefined", "orphan"},
   admin1 : {"undefined", "true"},
   countries : {NoCountries, CountryList(<<"AA", "BB">>)},
   failSilently : {"undefined", "true"}]

\* `values.every((val) => typeof val === 'undefined')`
NothingSet(env) ==
  /\ env.dumpDirectory = "undefined"
  /\ env.admin1 = "undefined"
  /\ ~env.countries.def

\* the options the script gives to init
ScriptOptions(env) ==
  Options(CountryList(env.countries.list), IsTrue(env.admin1),
          "false", "false", "false")

\* the script, from its first line to the return of geocoder.init or to
\* the catch block; fs.mkdirSync(GEONAMES_DUMP) of init throws when the
\* parent of the dump directory does not exist
PostInstall(env) ==
  /\ ~crashed
  /\ script = NoScript
  /\ NextCall <= MaxInits
  /\ IF NothingSet(env)
       THEN /\ script' = [script EXCEPT !.exit = <<0>>]
            /\ UNCHANGED <<kdTree, sideTables, store, disk, call, pipe,
                           crashed>>
     ELSE IF env.dumpDirectory = "orphan"
       THEN /\ script' = [script EXCEPT
                 !.threw = TRUE,
                 !.failSilently = (env.failSilently = "true"),
                 !.exit = IF env.failSilently = "true" THEN <<0>> ELSE <<1>>]
            /\ UNCHANGED <<kdTree, sideTables, store, disk, call, pipe,
                           crashed>>
     ELSE /\ init(NextCall, ScriptOptions(env))
          /\ script' = [script EXCEPT
               !.call = NextCall,
               !.failSilently = (env.failSilently = "true")]
  /\ UNCHANGED <<lastLookUp, isGeocodeInitialized, http>>
  /\ ReaderFrame

InitPost ==
  /\ Init

NextPost ==
  \/ \E env \in ScriptEnvs : PostInstall(env)
  \/ \E i \in 1..MaxInits, d \in Datasets, ok \in BOOLEAN :
       Response(i, d, ok, 1)
  \/ \E i \in 1..MaxInits : Immediate(i)
  \/ Streams

SpecPost == InitPost /\ [][NextPost]_vars

----------------------------------------------------------------------------
(* Properties of the post-install script (checked under SpecPost).         *)

\* the run of the script has failed: init threw, or a pipeline of its init
\* call failed, or a callback threw
ScriptFailed ==
  \/ script.threw
  \/ crashed
  \/ /\ script.call >= 1
     /\ \E d \in Datasets : pipe[script.call][d].failed

\* C18: the post-install script exits with 0 when it succeeds, with 0 when
\* it fails and GEOCODER_POSTINSTALL_FAIL_SILENTLY is true, and with 1 when
\* it fails otherwise, be the failure thrown by init or met in a callback
\* of a pipeline.
C18_ExitCode ==
  script.exit # <<>> =>
    script.exit = IF ScriptFailed /\ ~script.failSilently THEN <<1>>
                  ELSE <<0>>

----------------------------------------------------------------------------
(* Properties of a query at the coordinates of a city (under SpecQ).       *)

\* the coordinates of city c, as numbers
CoordinatesOf(c) == [latitude |-> Row(c).latitude,
                     longitude |-> Row(c).longitude]

----------------------------------------------------------------------------
(* Properties of the two forms of lookUp (checked under SpecQ).            *)

\* the input may be the one of a lookUp of either form the step makes: the
\* step records its points and the number of results of one of the forms,
\* or records nothing (the lazy path)
MayBeInputOf(input) ==
  \/ lastLookUp'.status = "threw"
  \/ /\ lastLookUp'.status = "delivered"
     /\ lastLookUp'.maxResults \in {MaxResultsOf(2, 1), MaxResultsOf(3, 1)}
     /\ lastLookUp'.isArray = input.isArray
     /\ Len(lastLookUp'.points) = Len(input.pts)
     /\ \A j \in 1..Len(input.pts) :
          lastLookUp'.points[j] = PointOf(input.pts[j])

\* C21: lookUp(points, callback) behaves as lookUp(points, 1, callback): a
\* step is a call of the one form with some points exactly if it is a call
\* of the other form with the same points, on a ready engine and on the
\* lazy path alike.
C21_TwoArgumentForm ==
  [][\A input \in QueryInputs :
       MayBeInputOf(input)
         => (LookUp(input, 2, 1) <=> LookUp(input, 3, 1))]_vars

\* a batch has been answered with maxResults 1, as both forms do
C21_Witness ==
  /\ Delivered
  /\ lastLookUp.isArray
  /\ Len(lastLookUp.points) = 2
  /\ lastLookUp.maxResults = 1
  /\ Len(lastLookUp.results[1]) = 1

----------------------------------------------------------------------------
(* Properties of lookUp calls made before the tree is set (under Spec).    *)

\* an init call is in progress
InitRunning == \E i \in 1..MaxInits : call[i].state = "running"

\* the step is a lookUp call that called init again, which threw
CallsInitAgain ==
  /\ lastLookUp' # lastLookUp
  /\ lastLookUp'.status = "threw"

\* C22: a lookUp that arrives while an init call is in progress and the
\* tree is not set yet waits for that init: it makes no init call of its
\* own.
C22_OneInitAtATime ==
  [][(InitRunning /\ ~kdTree.set) => ~CallsInitAgain]_vars

----------------------------------------------------------------------------
(* Properties of the files of the dump cache (checked under SpecCache).    *)

\* C23: a file _getData takes as a cache hit holds the complete body of a
\* download that ended with status 200 (or is a complete file that was
\* there when the process started).
C23_CacheHitIsComplete ==
  [][\A i \in 1..MaxInits, d \in Datasets :
       (Starts(i, d) /\ pipe'[i][d].stage = "parse")
         => pipe'[i][d].src = "full"]_vars

----------------------------------------------------------------------------
(* Properties of the callback of lookUp (checked under Spec).              *)

\* the step is a lookUp call
LookUpCalled ==
  /\ lastLookUp' # lastLookUp
  /\ lastLookUp'.status # "none"

\* the step starts the pipelines of an init call
InitStarted ==
  \E i \in 1..MaxInits :
    /\ call[i].state = "unused"
    /\ call'[i].state = "running"

\* C24: every lookUp call invokes its callback: when the call returns, the
\* callback has been invoked with the results, or the pipelines of the
\* lazy init whose completion will invoke it have been started.
C24_CallbackInvoked ==
  [][LookUpCalled => (lastLookUp'.status = "delivered" \/ InitStarted)]_vars

----------------------------------------------------------------------------
(* Properties of the download methods (checked under Spec).                *)

\* C25: a fetch whose response status is not 200 calls its continuation
\* once, with the error: when the body of that response has come to its
\* end, no second call of the continuation (with the path of the file,
\* which the onlyOnce wrapper answers with an exception) has been made.
C25_Non200ReportedOnce ==
  [][\A i \in 1..MaxInits, d \in Datasets :
       (pipe[i][d].net = "bodyErr" /\ pipe'[i][d].net = "closed")
         => ~crashed']_vars

\* the step hands the path of the downloaded file of dataset d to the
\* parser of init call i
ReportsPath(i, d) ==
  /\ pipe[i][d].stage = "fetch"
  /\ pipe'[i][d].stage = "parse"

\* C26: the fetch of an archive that holds no entry, or more than one,
\* named as expected reports no path, and the fetch of an archive that
\* holds exactly one reports the path when that entry is written
\* completely (checked under SpecCache).
C26_OneMatchingEntry ==
  [][\A i \in 1..MaxInits, d \in Datasets :
       (Method(d) = "zip" /\ ReportsPath(i, d))
         => /\ pipe[i][d].entries = 1
            /\ folder'[d][pipe[i][d].file] = "full"]_vars

----------------------------------------------------------------------------
(* Properties of the administrative codes of the records (under SpecQ).    *)

\* the cities of the results of the last lookUp
LastDelivered ==
  UNION {Range(lastLookUp.results[i]) : i \in 1..Len(lastLookUp.results)}

\* the key of level n (1..4) of city c, of the code strings of its row
RawKey(c, n) ==
  SubSeq(<<Row(c).countryCode, Row(c).admin1Code, Row(c).admin2Code,
           Row(c).admin3Code, Row(c).admin4Code>>, 1, n + 1)

\* the value the field of a level is to have: the entry of the table at
\* the key of the raw codes if there is one, the raw column if not
EntryOrRaw(table, key) ==
  IF key \in table.keys THEN Obj(key) ELSE Column(key[Len(key)])

\* C27: in every record lookUp has delivered, the code of each level whose
\* table is loaded is the entry of that table at the key of the record's
\* raw codes, or the raw code when the table has no such entry, whichever
\* other tables are loaded.
C27_RawCodeKeys ==
  Delivered =>
    \A c \in LastDelivered :
      /\ admin1Codes.set
           => store[c].admin1Code = EntryOrRaw(admin1Codes, RawKey(c, 1))
      /\ admin2Codes.set
           => store[c].admin2Code = EntryOrRaw(admin2Codes, RawKey(c, 2))
      /\ admin3Codes.set
           => store[c].admin3Code = EntryOrRaw(admin3Codes, RawKey(c, 3))
      /\ admin4Codes.set
           => store[c].admin4Code = EntryOrRaw(admin4Codes, RawKey(c, 4))

----------------------------------------------------------------------------
(* The order of the lookUp calls made before the tree is there (Spec).     *)

\* the step in which the tree of the cities appears
TreeAppears == ~kdTree.set /\ kdTree'.set

\* C28: a lookUp that arrived before init had completed is served once
\* the initialization completes, the calls being answered in the order of
\* their arrival: no such call is left unanswered when the tree appears.
C28_EarlyLookUpsServed ==
  [][(TreeAppears /\ lastLookUp.status = "threw")
       => lastLookUp'.status = "delivered"]_vars

----------------------------------------------------------------------------
(* The order of the steps of one pipeline (Spec).                          *)

\* the parser of pipeline d of call i starts in this step
ParserStarts(i, d) ==
  /\ pipe[i][d].stage # "parse"
  /\ pipe'[i][d].stage = "parse"

\* nothing of the download of pipeline d is left to happen: no entry of
\* the archive is still to come or is being written
FetchComplete(p) == p.writing = 0 /\ p.found = p.entries

\* pipeline d of call i, the task of an enabled dataset, ends without an
\* error in this step
EndsClean(i, d) ==
  /\ pipe[i][d].stage \notin {"done", "immediate"}
  /\ pipe'[i][d].stage = "done"
  /\ ~pipe'[i][d].failed

\* C29: in every pipeline the fetch has completed when the parser starts,
\* the parser has completed when the pipeline signals the barrier, and a
\* pipeline whose fetch has failed never starts its parser.
C29_FetchThenParseThenSignal ==
  [][\A i \in 1..MaxInits, d \in Datasets :
       /\ ParserStarts(i, d)
            => FetchComplete(pipe'[i][d]) /\ ~pipe[i][d].failed
       /\ EndsClean(i, d) => pipe[i][d].stage = "parse"]_vars

----------------------------------------------------------------------------
(* The order in which _getData looks for a dump (SpecCache).               *)

\* C30: _getData resolves a dataset in a fixed order: the timestamped file
\* of today when it exists; else the bare file when it exists, on whatever
\* day, with no request and no housekeeping; else a download into the
\* timestamped file of today, the folder of the dataset being there when
\* the download starts.
C30_ResolutionOrder ==
  [][\A i \in 1..MaxInits, d \in Datasets :
       Starts(i, d) =>
         IF folder[d][TS(today)] # "absent"
           THEN /\ pipe'[i][d].stage = "parse"
                /\ pipe'[i][d].file = TS(today)
         ELSE IF folder[d][Bare] # "absent"
           THEN /\ pipe'[i][d].stage = "parse"
                /\ pipe'[i][d].file = Bare
                /\ pipe'[i][d].net = "none"
                /\ folder'[d] = folder[d]
         ELSE /\ pipe'[i][d].stage = "fetch"
              /\ pipe'[i][d].net = "req"
              /\ pipe'[i][d].file = TS(today)
              /\ d \in dirs'
              /\ \A f \in FileNames \ {TS(today)} :
                   folder'[d][f] = folder[d][f]]_vars

\* the first init call took the cities from the timestamped file of day 1
\* although the bare file was there, and downloaded the admin1 codes into
\* a folder it had to create; the second one, on day 2, took the cities
\* from the bare file
C30_Witness ==
  /\ pipe[1]["cities"].file = TS(1)
  /\ pipe[1]["cities"].net = "none"
  /\ pipe[1]["admin1"].file = TS(1)
  /\ pipe[1]["admin1"].net = "closed"
  /\ "admin1" \in dirs
  /\ today = 2
  /\ pipe[2]["cities"].file = Bare
  /\ pipe[2]["cities"].net = "none"
  /\ folder["cities"][TS(1)] = "full"

----------------------------------------------------------------------------
(* The parsers on a file of any lines.  A line is the array of its         *)
(* columns, as line.split('\t') and csv-parse deliver it; the files hold   *)
(* at most MaxLines lines.                                                 *)

MaxLines == 3

\* `{}`
EmptyObject == [x \in {} |-> Null]

\* `object[key] = value`
Put(object, key, value) ==
  [x \in DOMAIN object \cup {key} |-> IF x = key THEN value ELSE object[x]]

\* `line[i]`, i counted from 0: undefined past the end of the array
At(line, i) == IF i + 1 <= Len(line) THEN Str(line[i + 1]) ELSE Undefined

\* `x || null` of a string or undefined
OrNull(x) == IF x.k = "str" /\ x.v[1] # "" THEN x ELSE Null

\* the name of the property a value used as a key stands for
PropertyKey(x) ==
  CASE x.k = "str" -> x.v[1]
    [] x.k = "null" -> "null"
    [] OTHER -> "undefined"

\* `Boolean(x)` of a string or undefined
Boolean(x) == x.k = "str" /\ x.v[1] # ""

\* the first columns of GEONAMES_COLUMNS, up to the coordinates
GEONAMES_COLUMNS ==
  <<"geoNameId", "name", "asciiName", "alternateNames", "latitude",
    "longitude">>

GEONAMES_ADMIN_CODES_COLUMNS ==
  <<"concatenatedCodes", "name", "asciiName", "geoNameId">>

\* the lineObj the cities parser makes of a line
CitiesLineObj(line) ==
  [c \in Range(GEONAMES_COLUMNS) |->
     OrNull(At(line, (CHOOSE i \in 1..Len(GEONAMES_COLUMNS) :
                        GEONAMES_COLUMNS[i] = c) - 1))]

\* `lines.forEach(...)` of _parseGeoNamesCitiesCsv: every line is pushed
RECURSIVE CitiesData(_)
CitiesData(lines) ==
  IF lines = <<>> THEN <<>>
  ELSE <<CitiesLineObj(Head(lines))>> \o CitiesData(Tail(lines))

\* the 'line' handler of _parseGeoNamesAdmin1CodesCsv and of
\* _parseGeoNamesAdmin2CodesCsv: the loop over the columns; writing a
\* property of `table[line[0]]` throws a TypeError when there is no such
\* entry
AdminLine(table, line) ==
  LET created == Put(table, PropertyKey(OrNull(At(line, 0))), EmptyObject)
  IN IF line[1] \in DOMAIN created
       THEN [table |-> Put(created, line[1],
               [i \in 2..Len(GEONAMES_ADMIN_CODES_COLUMNS) |->
                  OrNull(At(line, i - 1))]),
             threw |-> FALSE]
       ELSE [table |-> created, threw |-> TRUE]

\* the 'line' handler of _parseGeoNamesAlternateNamesCsv
AlternateNamesLine(table, line) ==
  LET geoNameId == PropertyKey(At(line, 1))
      isoLanguage == At(line, 2)
      names == IF geoNameId \in DOMAIN table THEN table[geoNameId]
               ELSE EmptyObject
  IN IF isoLanguage = Str("")
       THEN [table |-> table, threw |-> FALSE]
       ELSE [table |->
               Put(table, geoNameId,
                   Put(names, PropertyKey(isoLanguage),
                       [altName |-> At(line, 3),
                        isPreferredName |-> Boolean(At(line, 4)),
                        isShortName |-> Boolean(At(line, 5)),
                        isColloquial |-> Boolean(At(line, 6)),
                        isHistoric |-> Boolean(At(line, 7))])),
             threw |-> FALSE]

Parsers == {"cities", "admin1", "admin2", "alternateNames"}

\* the lines a file of a parser may hold: for the cities a row with a
\* latitude and one with a longitude that is no number; for the code
\* tables an empty line and a row with an empty first column; for the
\* alternate names an empty line and a row with an empty isoLanguage
FileLines(p) ==
  CASE p = "cities" ->
         {<<"c1", "One", "One", "", "0", "0">>,
          <<"c2", "Two", "Two", "", "2", "0">>,
          <<"x1", "Bad", "Bad", "", "abc", "0">>,
          <<"x2", "Odd", "Odd", "", "5", "">>}
    [] p = "admin1" ->
         {<<"">>, <<"", "Nowhere", "Nowhere", "9">>,
          <<"AA.01", "One", "One", "1">>, <<"BB.07", "Seven", "Seven", "7">>}
    [] p = "admin2" ->
         {<<"">>, <<"", "Nowhere", "Nowhere", "9">>,
          <<"AA.01.001", "One", "One", "1">>,
          <<"AA.01.002", "Two", "Two", "2">>}
    [] OTHER ->
         {<<"">>, <<"1", "c1", "", "Uno", "", "", "", "">>,
          <<"2", "c1", "en", "One", "1", "", "", "">>,
          <<"3", "c2", "fr", "Deux", "", "1", "", "1">>}

Files(p) == UNION {[1..n -> FileLines(p)] : n \in 0..MaxLines}

\* what the parsers leave alone
EngineFrame ==
  UNCHANGED <<kdTree, sideTables, store, disk, call, pipe, crashed,
              lastLookUp, isGeocodeInitialized, http, script>>

\* a parser is started on a file: `that._admin1Codes = {}`, `var data = []`
ParseFile(p, lines) ==
  /\ reader = NoReader
  /\ reader' = [parser |-> p, lines |-> lines, next |-> 1,
                table |-> IF p = "cities" THEN <<>> ELSE EmptyObject,
                state |-> "reading"]
  /\ EngineFrame

\* lineReader.on('line'): an exception of the handler is caught by nobody
LineEvent ==
  /\ reader.state = "reading"
  /\ reader.parser # "cities"
  /\ reader.next <= Len(reader.lines)
  /\ LET line == reader.lines[reader.next]
         r == IF reader.parser = "alternateNames"
                THEN AlternateNamesLine(reader.table, line)
                ELSE AdminLine(reader.table, line)
     IN reader' = [reader EXCEPT !.table = r.table, !.next = @ + 1,
                                 !.state = IF r.threw THEN "threw" ELSE @]
  /\ EngineFrame

\* lineReader.on('close'): `return callback()`
CloseEvent ==
  /\ reader.state = "reading"
  /\ reader.parser # "cities"
  /\ reader.next > Len(reader.lines)
  /\ reader' = [reader EXCEPT !.state = "closed"]
  /\ EngineFrame

\* the callback of csv-parse in _parseGeoNamesCitiesCsv, lines of six
\* columns: the tree is built of data
CitiesCsvParsed ==
  /\ reader.state = "reading"
  /\ reader.parser = "cities"
  /\ reader' = [reader EXCEPT !.table = CitiesData(reader.lines),
                              !.next = Len(reader.lines) + 1,
                              !.state = "closed"]
  /\ EngineFrame

NextParse ==
  \/ \E p \in Parsers : \E lines \in Files(p) : ParseFile(p, lines)
  \/ LineEvent
  \/ CloseEvent
  \/ CitiesCsvParsed

SpecParse == Init /\ [][NextParse]_vars

\* the strings parseFloat reads a finite number from
Numerals == {"0", "2", "5"}

ParsesAsFloat(x) == x.k = "str" /\ x.v[1] \in Numerals

HasCoordinates(lineObj) ==
  /\ ParsesAsFloat(lineObj["latitude"])
  /\ ParsesAsFloat(lineObj["longitude"])

\* C31: when the cities parser has finished, the tree is built of exactly
\* one record for every row whose latitude and longitude parse as finite
\* floats, the other rows having been skipped.
C31_OneNodePerParsedRow ==
  (reader.parser = "cities" /\ reader.state = "closed")
    => reader.table = SelectSeq(CitiesData(reader.lines), HasCoordinates)

\* a row of a code table with a key in its first column
WellFormed(line) == line[1] # ""

\* C32: in the admin1 and admin2 parsers a malformed row (an empty line, a
\* row with an empty first column) is dropped silently: the handler throws
\* nothing, and when the parser has finished the table holds the
\* well-formed rows of the file, each under its first column, and nothing
\* else.
C32_MalformedRowsDropped ==
  reader.parser \in {"admin1", "admin2"} =>
    /\ reader.state # "threw"
    /\ reader.state = "closed" =>
         /\ DOMAIN reader.table =
              {reader.lines[i][1] :
                 i \in {j \in 1..Len(reader.lines) :
                          WellFormed(reader.lines[j])}}
         /\ \A i \in 1..Len(reader.lines) :
              WellFormed(reader.lines[i]) =>
                reader.table[reader.lines[i][1]][2] = Str(reader.lines[i][2])

\* a row of the alternate names with a language in its third column
HasLanguage(line) == Len(line) >= 3 /\ line[3] # ""

\* C33: when the parser of the alternate names has finished, every entry
\* of the table comes from a row whose isoLanguage is there and not empty,
\* and every such row has its entry altNames[geoNameId][isoLanguage], with
\* altName and the four flags, a flag being true exactly when its column is
\* a non-empty string.
C33_AlternateNamesRows ==
  (reader.parser = "alternateNames" /\ reader.state = "closed") =>
    /\ \A g \in DOMAIN reader.table : \A l \in DOMAIN reader.table[g] :
         \E i \in 1..Len(reader.lines) :
           /\ HasLanguage(reader.lines[i])
           /\ reader.lines[i][2] = g
           /\ reader.lines[i][3] = l
    /\ \A i \in 1..Len(reader.lines) :
         LET line == reader.lines[i] IN
         HasLanguage(line) =>
           /\ line[2] \in DOMAIN reader.table
           /\ line[3] \in DOMAIN reader.table[line[2]]
           /\ reader.table[line[2]][line[3]] =
                [altName |-> Str(line[4]),
                 isPreferredName |-> line[5] # "",
                 isShortName |-> line[6] # "",
                 isColloquial |-> line[7] # "",
                 isHistoric |-> line[8] # ""]

----------------------------------------------------------------------------
(* What is set stays set (Spec).                                           *)

TablesSet ==
  {t \in 1..5 : <<admin1Codes, admin2Codes, admin3Codes, admin4Codes,
                  alternateNames>>[t].set}

\* C34: the tree, once set, is never null again, and neither is a side
\* table once it is set, whatever init and lookUp calls follow; so a
\* lookUp made when the tree is set is answered and starts no init, also
\* while a later init is running.
C34_SetStaysSet ==
  [][/\ kdTree.set => kdTree'.set
     /\ TablesSet \subseteq TablesSet'
     /\ (kdTree.set /\ LookUpCalled)
          => lastLookUp'.status = "delivered" /\ call' = call]_vars

\* a lookUp has been answered while the second init call was running,
\* after that call had replaced the tree and emptied the admin1 table
C34_Witness ==
  /\ Delivered
  /\ call[2].state = "running"
  /\ pipe[2]["cities"].stage = "done"
  /\ pipe[2]["admin1"].stage = "parse"
  /\ pipe[2]["admin1"].lines = 0

----------------------------------------------------------------------------
(* lookUp while a parser is filling a side table (Spec).                   *)

\* the parser of side table d of init call i has emptied the table and has
\* not yet read every line of its file
PartlyRefilled(i, d) ==
  /\ d \in SideTableSets
  /\ pipe[i][d].stage = "parse"
  /\ pipe[i][d].lines < LinesOf(d, pipe[i][d].src)

\* C35: a lookUp that is served while an init is in progress decorates its
\* hits from side tables that are completely loaded or absent: no lookUp
\* is answered while the parser of a side table has emptied the table and
\* refilled it in part only.
C35_NoPartlyRefilledTable ==
  [][(LookUpCalled /\ lastLookUp'.status = "delivered")
       => \A i \in 1..MaxInits, d \in Datasets : ~PartlyRefilled(i, d)]_vars

----------------------------------------------------------------------------
(* The error lookUp hands to its caller (SpecHttp).                        *)

\* C36: the error lookUp passes to the callback of its caller is null in
\* every case, so the error branch of a caller is never taken: no answer
\* 500 of /geocode is the answer of a callback of lookUp.
C36_ErrorAlwaysNull ==
  [][/\ lastLookUp'.status = "delivered" => lastLookUp'.err = "null"
     /\ (Answers("geocode") /\ http'.status = 500)
          => lastLookUp'.status # "delivered"]_vars

\* /geocode has answered 200 from the callback of lookUp, which got null
\* as its error
C36_Witness ==
  /\ http.route = "geocode"
  /\ http.status = 200
  /\ Delivered
  /\ lastLookUp.err = "null"
  /\ Len(lastLookUp.points) = 2

====
